---- MODULE Spec2Model ----
(***************************************************************************)
(* Instagram -> Facebook poster (src/main.py).                             *)
(*                                                                         *)
(* The model follows main() step by step: load_cache, the candidate fetch, *)
(* the filter against posted_ids, and for every new video (oldest first)   *)
(* download_video_from_url, upload_to_facebook with its save_cache, and    *)
(* the cleanup of the local file.  The cache file, the local .mp4 files    *)
(* and the Facebook page outlive a run; everything else is process memory. *)
(* The environment decides the outcome of every network and file call.     *)
(***************************************************************************)
EXTENDS Integers, Sequences, FiniteSets, TLC

(* ---------------------------- bounds ----------------------------------- *)
\* shortcodes that occur in the feed and in the cache file
Ids == {"a", "b"}
\* number of consecutive runs of main()
MaxRuns == 2
\* number of posts the profile iterator yields
MaxPosts == 2
\* length of the posted_ids list in the cache file before the first run
InitLedgerLen == 1
\* largest retries argument download_video_from_url is called with
MaxRetries == 3
\* largest max_results fetch_latest_instagram_videos is called with
MaxLimit == 2

(* ------------------------ program constants ---------------------------- *)
MAX_RESULTS == 5
retries == 2

(* ----------------------------- state ----------------------------------- *)
VARIABLES
    file,        \* content of posted_cache.json
    disk,        \* ids whose <id>.mp4 exists in the working directory
    pubs,        \* id -> number of videos created on the Facebook page
    durable,     \* ids whose relay completed (save_cache returned) or that
                 \* the cache file held before the first run
    run,         \* number of runs of main() started
    pc,          \* position of the process in main()
    cache,       \* the dict returned by load_cache()
    loaded,      \* ids in cache["posted_ids"] when the run loaded it
    videos,      \* result of fetch_latest_instagram_videos
    new_videos,  \* videos not in cache["posted_ids"]
    k,           \* index of the current item in reversed(new_videos)
    attempt,     \* download_video_from_url's attempt counter
    result,      \* publishedAt -> outcome printed for that item
    resp,        \* publishedAt -> response of the POST made for that item
    last_unlink, \* what the finally block did for the latest item
    fetch_err,   \* fetch_latest_instagram_videos raised in this run
    obs,         \* what a load_cache of an overlapping run has read
    retries_arg, \* the retries argument of download_video_from_url
    gets,        \* requests.get calls of the download call in progress, or
                 \* of the latest one that raised
    sleeps,      \* time.sleep(3) calls of that download call
    nposts,      \* publishedAt -> number of requests.post calls for the item
    before,      \* cache and cache file when the item in progress was begun
    fcall        \* a call of fetch_latest_instagram_videos on its own

vars == <<file, disk, pubs, durable, run, pc, cache, loaded, videos,
          new_videos, k, attempt, result, resp, last_unlink, fetch_err,
          obs, retries_arg, gets, sleeps, nposts, before, fcall>>

durables == <<file, disk, pubs, durable>>
locals == <<cache, loaded, videos, new_videos, k, attempt, result, resp,
            last_unlink, fetch_err, gets, sleeps, nposts, before>>

\* what no step of main changes
params == <<retries_arg, fcall>>

(* ----------------------------- helpers --------------------------------- *)
Range(s) == {s[j] : j \in 1..Len(s)}

SeqsUpTo(S, n) == UNION {[1..m -> S] : m \in 0..n}

\* a cache file: kind says what json.load makes of the bytes
File(kind, ids) == [kind |-> kind, ids |-> ids]

\* a dict (or other JSON value) in memory
Cache(shape, ids) == [shape |-> shape, posted_ids |-> ids]

EmptyCache == Cache("dict_list", <<>>)

(* ----------------------- load_cache / save_cache ----------------------- *)
\* What the bytes of the cache file are, as far as load_cache can tell:
\*   absent      no file
\*   empty       zero bytes (the file right after open(..., "w"))
\*   partial     a proper prefix of a json.dump output
\*   garbage     text that is not JSON
\*   undecodable bytes that are not UTF-8
\*   nonobj      JSON that is not an object (a list, a number, null)
\*   nokey       a JSON object without "posted_ids"
\*   badids      a JSON object whose "posted_ids" is a number or null
\*   ok          {"posted_ids": [ids]}
NotJson == {"empty", "partial", "garbage"}

\* load_cache(): the value returned, or the exception that escapes it
load_cache(f) ==
    CASE f.kind = "absent"      -> [raises |-> "none", value |-> EmptyCache]
      [] f.kind \in NotJson     -> [raises |-> "none", value |-> EmptyCache]
      [] f.kind = "undecodable" -> [raises |-> "UnicodeDecodeError", value |-> EmptyCache]
      [] f.kind = "nonobj"      -> [raises |-> "none", value |-> Cache("nondict", <<>>)]
      [] f.kind = "nokey"       -> [raises |-> "none", value |-> Cache("dict_nokey", <<>>)]
      [] f.kind = "badids"      -> [raises |-> "none", value |-> Cache("dict_badids", <<>>)]
      [] OTHER                  -> [raises |-> "none", value |-> Cache("dict_list", f.ids)]

\* json.dump(cache, f): the complete text of the file
json_dump(c) == File("ok", c.posted_ids)

\* the ids a cache file records
LedgerOf(f) == IF f.kind = "ok" THEN Range(f.ids) ELSE {}

\* the ids of the in-memory ledger
PostedIds(c) == IF c.shape = "dict_list" THEN Range(c.posted_ids) ELSE {}

(* -------------------- fetch_latest_instagram_videos -------------------- *)
\* A post of the profile; date_utc is its rank in the feed, the newest post
\* having the largest.
Post(shortcode, is_video, video_url, date_utc) ==
    [shortcode |-> shortcode, is_video |-> is_video,
     video_url |-> video_url, date_utc |-> date_utc]

PostKinds == [shortcode : Ids, is_video : BOOLEAN, video_url : BOOLEAN]

\* profile.get_posts(): newest -> oldest
Feeds ==
    {[j \in 1..Len(s) |->
         Post(s[j].shortcode, s[j].is_video, s[j].video_url, Len(s) - j + 1)] :
       s \in SeqsUpTo(PostKinds, MaxPosts)}

RECURSIVE fetch_loop(_, _, _, _, _)
fetch_loop(posts, j, vids, count, max_results) ==
    IF j > Len(posts) \/ count >= max_results THEN vids
    ELSE LET post == posts[j] IN
         IF post.is_video /\ post.video_url
         THEN fetch_loop(posts, j + 1,
                         Append(vids, [id |-> post.shortcode,
                                       publishedAt |-> post.date_utc]),
                         count + 1, max_results)
         ELSE fetch_loop(posts, j + 1, vids, count, max_results)

\* every post counted toward the limit, video or not
fetch_counting_every_post(posts, max_results) ==
    fetch_loop(SubSeq(posts, 1, IF max_results < Len(posts)
                                THEN max_results ELSE Len(posts)),
               1, <<>>, 0, max_results)

fetch_latest_instagram_videos(posts, max_results) ==
    fetch_loop(posts, 1, <<>>, 0, max_results)

\* how many posts the for loop takes from the iterator: the post is taken
\* before count is compared with max_results
RECURSIVE pulled_loop(_, _, _, _)
pulled_loop(posts, j, count, max_results) ==
    IF j > Len(posts) THEN Len(posts)
    ELSE IF count >= max_results THEN j
    ELSE pulled_loop(posts, j + 1,
                     IF posts[j].is_video /\ posts[j].video_url
                     THEN count + 1 ELSE count,
                     max_results)

pulled(posts, max_results) == pulled_loop(posts, 1, 0, max_results)

\* The source fails at fail_at: 0 is Profile.from_username raising, j >= 1
\* is the iterator raising when the j-th post is taken; a j the loop never
\* reaches is no failure.
fetch_raises(posts, fail_at, max_results) ==
    fail_at = 0 \/ (fail_at >= 1 /\ fail_at <= pulled(posts, max_results))

\* the failure swallowed, the videos collected so far returned
fetch_call_partial(posts, fail_at, max_results) ==
    [raised |-> FALSE,
     videos |-> IF fetch_raises(posts, fail_at, max_results)
                THEN IF fail_at = 0 THEN <<>>
                     ELSE fetch_latest_instagram_videos(
                              SubSeq(posts, 1, fail_at - 1), max_results)
                ELSE fetch_latest_instagram_videos(posts, max_results)]

\* what main gets from fetch_latest_instagram_videos(max_results): the
\* exception leaves the function and the local list is lost
fetch_call(posts, fail_at, max_results) ==
    IF fetch_raises(posts, fail_at, max_results)
    THEN [raised |-> TRUE, videos |-> <<>>]
    ELSE [raised |-> FALSE,
          videos |-> fetch_latest_instagram_videos(posts, max_results)]

(* ------------------------------ main ----------------------------------- *)
\* the filter left out: every fetched video is taken as new
filter_new_keep_all(vs, posted) == vs

\* [v for v in videos if v["id"] not in cache["posted_ids"]]
RECURSIVE filter_new(_, _)
filter_new(vs, posted) ==
    IF vs = <<>> THEN <<>>
    ELSE IF Head(vs).id \notin posted
         THEN <<Head(vs)>> \o filter_new(Tail(vs), posted)
         ELSE filter_new(Tail(vs), posted)

\* the list walked as fetched, newest first
reversed_dropped(s) == s

\* reversed(new_videos)
reversed(s) == [j \in 1..Len(s) |-> s[Len(s) - j + 1]]

\* the item of the current loop iteration
item == reversed(new_videos)[k]

\* the file is left where it is
unlink_skipped(d, id) == d

\* p.unlink()
unlink(d, id) == d \ {id}

\* the comparison off by one: attempt >= retries
exhausted_early(a, r) == a >= r

\* attempt > retries
exhausted(a, r) == a > r

\* the membership test left out
already_posted_never(vid_id, c) == FALSE

\* vid_id in cache.get("posted_ids", [])
already_posted(vid_id, c) == vid_id \in Range(c.posted_ids)

\* the id not appended
record_nothing(c, vid_id) == c

\* cache.setdefault("posted_ids", []).append(vid_id)
record(c, vid_id) == [c EXCEPT !.posted_ids = Append(@, vid_id)]

\* the upload tried again after a failure
on_publish_error_retry == "upload"

\* where main goes when the POST or the reading of its response raises:
\* the except clause, then the finally block
on_publish_error == "cleanup"

\* the loop staying on the same item
next_item_same(i) == i

\* the for loop moves to the next item
next_item(i) == i + 1

Snapshot(c, f) == [cache |-> c, file |-> f]

NoSnapshot == Snapshot(EmptyCache, File("absent", <<>>))

NoCall == [posts |-> <<>>, max_results |-> 0, returned |-> FALSE, out |-> <<>>]

InitFiles ==
    {File(kd, <<>>) : kd \in {"absent", "garbage", "undecodable", "nonobj",
                              "nokey", "badids"}}
    \cup {File("ok", s) : s \in SeqsUpTo(Ids, InitLedgerLen)}

NoObs == [seen |-> FALSE, raw |-> File("absent", <<>>)]

InitLocals ==
    /\ cache = EmptyCache
    /\ loaded = {}
    /\ videos = <<>>
    /\ new_videos = <<>>
    /\ k = 0
    /\ attempt = 0
    /\ result = <<>>
    /\ resp = <<>>
    /\ last_unlink = "none"
    /\ fetch_err = FALSE
    /\ gets = 0
    /\ sleeps = 0
    /\ nposts = <<>>
    /\ before = NoSnapshot

Init ==
    /\ file \in InitFiles
    /\ disk = {}
    /\ pubs = [id \in Ids |-> 0]
    /\ durable = LedgerOf(file)
    /\ run = 0
    /\ pc = "idle"
    /\ InitLocals
    /\ obs = NoObs
    /\ retries_arg = retries
    /\ fcall = NoCall

ResetLocals ==
    /\ cache' = EmptyCache
    /\ loaded' = {}
    /\ videos' = <<>>
    /\ new_videos' = <<>>
    /\ k' = 0
    /\ attempt' = 0
    /\ result' = <<>>
    /\ resp' = <<>>
    /\ last_unlink' = "none"
    /\ fetch_err' = FALSE
    /\ gets' = 0
    /\ sleeps' = 0
    /\ nposts' = <<>>
    /\ before' = NoSnapshot

Stopped == {"idle", "done", "aborted", "killed"}

\* python3 main.py is started (again)
StartRun ==
    /\ pc \in Stopped
    /\ run < MaxRuns
    /\ run' = run + 1
    /\ pc' = "load"
    /\ ResetLocals
    /\ UNCHANGED <<durables, obs, params>>

\* main, lines 185-187: cache = load_cache(); default for a missing key
LoadCache ==
    /\ pc = "load"
    /\ LET r == load_cache(file) IN
       IF r.raises # "none" \/ r.value.shape = "nondict"
       THEN \* UnicodeDecodeError, or TypeError on a value that is no dict
            /\ pc' = "aborted"
            /\ UNCHANGED <<cache, loaded>>
       ELSE /\ cache' = IF r.value.shape = "dict_nokey" THEN EmptyCache
                        ELSE r.value
            /\ loaded' = PostedIds(cache')
            /\ pc' = "fetch"
    /\ UNCHANGED <<durables, run, videos, new_videos, k, attempt, result,
                   resp, last_unlink, fetch_err, obs, gets, sleeps, nposts,
                   before, params>>

\* main, lines 189-203: fetch the candidates and filter the posted ones
FetchAndSelect ==
    /\ pc = "fetch"
    /\ \E posts \in Feeds : \E fail_at \in 0..(Len(posts) + 1) :
         LET got == fetch_call(posts, fail_at, MAX_RESULTS)
             vs == got.videos
             nv == filter_new(vs, Range(cache.posted_ids))
             ts == {nv[j].publishedAt : j \in 1..Len(nv)}
         IN /\ fetch_err' = fetch_raises(posts, fail_at, MAX_RESULTS)
            /\ IF got.raised THEN
                  \* except Exception: printed, return
                  /\ pc' = "done"
                  /\ UNCHANGED <<videos, new_videos, result, resp, nposts, k>>
               ELSE
                  /\ videos' = vs
                  /\ k' = IF vs = <<>> \/ cache.shape = "dict_badids"
                             \/ nv = <<>>
                          THEN k ELSE 1
                  /\ IF vs = <<>> THEN
                        /\ pc' = "done"
                        /\ UNCHANGED <<new_videos, result, resp, nposts>>
                     ELSE IF cache.shape = "dict_badids" THEN
                        \* v["id"] not in <number>: TypeError leaves main
                        /\ pc' = "aborted"
                        /\ UNCHANGED <<new_videos, result, resp, nposts>>
                     ELSE
                        /\ new_videos' = nv
                        /\ result' = [t \in ts |-> "Selected"]
                        /\ resp' = [t \in ts |-> "none"]
                        /\ nposts' = [t \in ts |-> 0]
                        /\ pc' = IF nv = <<>> THEN "done" ELSE "loop"
    /\ UNCHANGED <<durables, run, cache, loaded, attempt, last_unlink, obs,
                   gets, sleeps, before, params>>

\* the outcomes of one requests.get + streaming write
GetOutcomes == {"ok", "error", "error_partial"}

\* the outcomes of the requests.post and of reading its response:
\*   ok         HTTP 200, body {"id": ...}: the video exists on the page
\*   err200     HTTP 200, body {"error": {...}}: no video was created
\*   http_error a status raise_for_status() raises on
\*   not_json   HTTP 200 with a body r.json() cannot parse
\*   exception  requests raised (timeout, connection error)
Responses == {"ok", "err200", "http_error", "not_json", "exception"}

Set1(f, t, v) == [f EXCEPT ![t] = v]

\* main, lines 206-208: the next item of reversed(new_videos)
BeginItem ==
    /\ pc = "loop"
    /\ result' = Set1(result, item.publishedAt, "Fetching")
    /\ attempt' = 0
    /\ gets' = 0
    /\ sleeps' = 0
    /\ before' = Snapshot(cache, file)
    /\ last_unlink' = "none"
    /\ pc' = "download"
    /\ UNCHANGED <<durables, run, cache, loaded, videos, new_videos, k, resp,
                   fetch_err, obs, nposts, params>>

\* download_video_from_url, lines 138-152: one pass of the while loop
Download ==
    /\ pc = "download"
    /\ \E out \in GetOutcomes :
         /\ disk' = IF out \in {"ok", "error_partial"}
                    THEN disk \cup {item.id} ELSE disk
         /\ IF out = "ok" THEN
               \* return out_path: the frame and its counters are gone
               /\ attempt' = 0
               /\ gets' = 0
               /\ sleeps' = 0
               /\ result' = Set1(result, item.publishedAt, "Publishing")
               /\ pc' = "upload"
            ELSE
               /\ attempt' = attempt + 1
               /\ gets' = gets + 1
               /\ IF exhausted(attempt', retries_arg)
                  THEN \* raise: main prints the error
                       /\ result' = Set1(result, item.publishedAt, "Failed")
                       /\ pc' = "cleanup"
                       /\ UNCHANGED sleeps
                  ELSE \* time.sleep(3), next pass
                       /\ sleeps' = sleeps + 1
                       /\ UNCHANGED <<result, pc>>
    /\ UNCHANGED <<file, pubs, durable, run, cache, loaded, videos,
                   new_videos, k, resp, last_unlink, fetch_err, obs, nposts,
                   before, params>>

\* upload_to_facebook, lines 156-179: the posted check, the POST, the append
Upload ==
    /\ pc = "upload"
    /\ IF already_posted(item.id, cache) THEN
          \* "Already posted": return
          /\ result' = Set1(result, item.publishedAt, "Skipped")
          /\ pc' = "cleanup"
          /\ UNCHANGED <<pubs, cache, resp, nposts>>
       ELSE
          \E r \in Responses :
             /\ resp' = Set1(resp, item.publishedAt, r)
             /\ nposts' = Set1(nposts, item.publishedAt,
                               nposts[item.publishedAt] + 1)
             /\ pubs' = IF r = "ok" THEN [pubs EXCEPT ![item.id] = @ + 1]
                        ELSE pubs
             /\ IF r \in {"ok", "err200"} THEN
                   /\ cache' = record(cache, item.id)
                   /\ pc' = "save"
                   /\ UNCHANGED result
                ELSE
                   /\ result' = Set1(result, item.publishedAt, "Failed")
                   /\ pc' = on_publish_error
                   /\ UNCHANGED cache
    /\ UNCHANGED <<file, disk, durable, run, loaded, videos, new_videos, k,
                   attempt, last_unlink, fetch_err, obs, gets, sleeps,
                   before, params>>

\* save_cache, line 53: open(CACHE_FILE, "w") truncates the file
SaveOpen ==
    /\ pc = "save"
    /\ \/ /\ file' = File("empty", <<>>)
          /\ pc' = "write"
          /\ UNCHANGED result
       \/ \* open raises OSError
          /\ result' = Set1(result, item.publishedAt, "Failed")
          /\ pc' = "cleanup"
          /\ UNCHANGED file
    /\ UNCHANGED <<disk, pubs, durable, run, cache, loaded, videos,
                   new_videos, k, attempt, resp, last_unlink, fetch_err, obs,
                   gets, sleeps, nposts, before, params>>

\* save_cache, line 54: json.dump and the close of the file
SaveWrite ==
    /\ pc = "write"
    /\ \/ \* a first buffer reaches the file
          /\ file.kind = "empty"
          /\ file' = File("partial", <<>>)
          /\ UNCHANGED <<pc, result, durable>>
       \/ \* everything is written, save_cache and upload_to_facebook return
          /\ file' = json_dump(cache)
          /\ durable' = durable \cup {item.id}
          /\ result' = Set1(result, item.publishedAt, "Committed")
          /\ pc' = "cleanup"
       \/ \* write or close raises OSError
          /\ result' = Set1(result, item.publishedAt, "Failed")
          /\ pc' = "cleanup"
          /\ UNCHANGED <<file, durable>>
    /\ UNCHANGED <<disk, pubs, run, cache, loaded, videos, new_videos, k,
                   attempt, resp, last_unlink, fetch_err, obs, gets, sleeps,
                   nposts, before, params>>

\* main, lines 214-223: the finally block, then the next iteration
Cleanup ==
    /\ pc = "cleanup"
    /\ IF item.id \in disk THEN
          \/ /\ disk' = unlink(disk, item.id)
             /\ last_unlink' = "removed"
          \/ \* p.unlink() raises: except Exception: pass
             /\ last_unlink' = "raised"
             /\ UNCHANGED disk
       ELSE
          /\ last_unlink' = "absent"
          /\ UNCHANGED disk
    /\ IF k < Len(new_videos)
       THEN k' = next_item(k) /\ pc' = "loop"
       ELSE k' = k /\ pc' = "done"
    /\ before' = NoSnapshot
    /\ UNCHANGED <<file, pubs, durable, run, cache, loaded, videos,
                   new_videos, attempt, result, resp, fetch_err, obs, gets,
                   sleeps, nposts, params>>

\* the process is killed (SIGKILL, power loss, job timeout)
Crash ==
    /\ pc \notin Stopped
    /\ pc' = "killed"
    /\ ResetLocals
    /\ UNCHANGED <<durables, run, obs, params>>

\* load_cache of a second, overlapping run of the job reads the file
ReaderLoad ==
    /\ pc \notin Stopped
    /\ obs' = [seen |-> TRUE, raw |-> file]
    /\ UNCHANGED <<durables, run, pc, locals, params>>

Next ==
    \/ StartRun
    \/ LoadCache
    \/ FetchAndSelect
    \/ BeginItem
    \/ Download
    \/ Upload
    \/ SaveOpen
    \/ SaveWrite
    \/ Cleanup
    \/ Crash

Spec == Init /\ [][Next]_vars

\* one run, with the load_cache of an overlapping run
InitConc ==
    /\ Init
    /\ file.kind = "ok"

NextConc ==
    \/ Next
    \/ ReaderLoad

SpecConc == InitConc /\ [][NextConc]_vars

\* the last run of main(), begun with whatever earlier runs left behind
InitRun ==
    /\ file \in InitFiles
    /\ disk \in SUBSET Ids
    /\ pubs = [id \in Ids |-> 0]
    /\ durable = LedgerOf(file)
    /\ run = MaxRuns - 1
    /\ pc = "idle"
    /\ InitLocals
    /\ obs = NoObs
    /\ retries_arg = retries
    /\ fcall = NoCall

SpecRun == InitRun /\ [][Next]_vars

\* one run in which download_video_from_url is called with any retries >= 0
InitDl ==
    /\ file = File("absent", <<>>)
    /\ disk = {}
    /\ pubs = [id \in Ids |-> 0]
    /\ durable = {}
    /\ run = MaxRuns - 1
    /\ pc = "idle"
    /\ InitLocals
    /\ obs = NoObs
    /\ retries_arg \in 0..MaxRetries
    /\ fcall = NoCall

SpecDl == InitDl /\ [][Next]_vars

\* fetch_latest_instagram_videos called on its own, on any feed and limit
InitFetch ==
    /\ file = File("absent", <<>>)
    /\ disk = {}
    /\ pubs = [id \in Ids |-> 0]
    /\ durable = {}
    /\ run = 0
    /\ pc = "idle"
    /\ InitLocals
    /\ obs = NoObs
    /\ retries_arg = retries
    /\ \E posts \in Feeds : \E n \in 0..MaxLimit :
          fcall = [posts |-> posts, max_results |-> n, returned |-> FALSE,
                   out |-> <<>>]

FetchApply ==
    /\ ~fcall.returned
    /\ fcall' = [fcall EXCEPT
                    !.returned = TRUE,
                    !.out = fetch_latest_instagram_videos(fcall.posts,
                                                          fcall.max_results)]
    /\ UNCHANGED <<durables, run, pc, locals, obs, retries_arg>>

SpecFetch == InitFetch /\ [][FetchApply]_vars

\* a step of main: the call it is in returns or raises
Step ==
    \/ LoadCache
    \/ FetchAndSelect
    \/ BeginItem
    \/ Download
    \/ Upload
    \/ SaveOpen
    \/ SaveWrite
    \/ Cleanup

NextLive ==
    \/ StartRun
    \/ Step

\* one run that is not killed and in which every call returns or raises
SpecLive == InitRun /\ [][NextLive]_vars /\ WF_vars(Step)

(* ------------------------- reading the history ------------------------- *)
\* the items of this run, by their publishedAt
Times == DOMAIN result

ItemAt(t) == CHOOSE v \in Range(new_videos) : v.publishedAt = t

\* download_video_from_url has been called for the item
Started(t) == result[t] # "Selected"

\* the try block of the item has been left
Ended(t) == result[t] \in {"Committed", "Skipped", "Failed"}

\* ids download_video_from_url was called for in this run
dl_calls == {ItemAt(t).id : t \in {u \in Times : Started(u)}}

\* ids a POST was sent for in this run
post_calls == {ItemAt(t).id : t \in {u \in Times : resp[u] # "none"}}

\* ids whose POST created a video in this run
published_now == {ItemAt(t).id : t \in {u \in Times : resp[u] = "ok"}}

(* ------------------------------ claims --------------------------------- *)

\* C1: over any sequence of runs, with failed uploads, failed saves and
\* crashes, every id is published to the page at most once.
C1_AtMostOncePublished == \A id \in Ids : pubs[id] <= 1

\* C2: an id that was not in the ledger at load time is in
\* cache["posted_ids"] exactly when a POST for it created a video in this run.
C2_RecordedIffPublished ==
    \A id \in Ids \ loaded : (id \in PostedIds(cache)) <=> (id \in published_now)

\* C3: an HTTP 200 response with an embedded error object is a failure: the
\* item ends Failed and its id enters neither posted_ids nor the cache file.
C3_EmbeddedErrorIsFailure ==
    \A t \in Times :
        (resp[t] = "err200" /\ ItemAt(t).id \notin published_now) =>
            /\ ItemAt(t).id \notin PostedIds(cache)
            /\ ItemAt(t).id \notin LedgerOf(file)
            /\ Ended(t) => result[t] = "Failed"

\* C4: for an id that the ledger held when the run loaded it, neither
\* download_video_from_url nor the POST is invoked in that run.
C4_NoFetchNoPublishOfPosted == loaded \cap (dl_calls \cup post_calls) = {}

\* a finished run whose candidates held a posted id next to a new one that
\* was relayed
C4_Witness ==
    /\ pc = "done"
    /\ \E j \in 1..Len(videos) : videos[j].id \in loaded
    /\ \E t \in Times : result[t] = "Committed"

\* C5: of two unseen candidates, the one later in the newest-first list has
\* its download, publish and commit over before the other's download begins.
C5_OldestUnseenFirst ==
    \A p, q \in 1..Len(videos) :
        (/\ p < q
         /\ videos[p].id \notin loaded /\ videos[q].id \notin loaded
         /\ videos[p].publishedAt \in Times
         /\ videos[q].publishedAt \in Times
         /\ Started(videos[p].publishedAt))
        => Ended(videos[q].publishedAt)

\* two unseen candidates with different ids, both relayed
C5_Witness ==
    /\ pc = "done"
    /\ Len(new_videos) = 2
    /\ new_videos[1].id # new_videos[2].id
    /\ \A t \in Times : result[t] = "Committed"

\* C6: a failure of one item does not keep the later ones from being
\* attempted, and after the run the ledger holds exactly the ids loaded plus
\* those whose download and publish both succeeded.
C6_IsolationAndExactLedger ==
    (pc = "done" /\ new_videos # <<>>) =>
        /\ \A t \in Times : Ended(t)
        /\ PostedIds(cache) = loaded \cup published_now

\* C7: whatever crashed before, the ledger the next load_cache returns holds
\* every id whose relay had completed.
C7_CompletedSurviveCrash ==
    pc = "fetch" => durable \subseteq PostedIds(cache)

\* C8: a load_cache that overlaps a save_cache never reads an empty or
\* partly written cache file.
C8_ReaderSeesCompleteFile ==
    obs.seen => obs.raw.kind \notin {"empty", "partial"}

\* C9: whatever the cache file holds, loading gives an empty ledger unless
\* the file is {"posted_ids": [...]}, and the run goes on without aborting.
C9_LoadAlwaysRecovers ==
    /\ pc # "aborted"
    /\ (pc = "fetch" /\ file.kind # "ok") => cache = EmptyCache

\* C10 as stated: when the processing of an item ends, <id>.mp4 is not on disk.
C10_NoLocalFileAfterItem ==
    [][(pc = "cleanup" /\ pc' \in {"loop", "done"}) => item.id \notin disk']_vars

\* C10, amended: when the processing of an item ends, <id>.mp4 is not on
\* disk unless p.unlink() raised, in which case the file stays.
C10_NoLocalFileUnlessUnlinkRaised ==
    [][(pc = "cleanup" /\ pc' \in {"loop", "done"} /\ last_unlink' # "raised")
          => item.id \notin disk']_vars

\* a download that failed on every attempt and left a file, removed by the
\* finally block
C10_Witness ==
    /\ pc = "done"
    /\ new_videos # <<>>
    /\ last_unlink = "removed"
    /\ result[item.publishedAt] = "Failed"
    /\ resp[item.publishedAt] = "none"
    /\ item.id \notin disk

\* the item in progress
cur == item.publishedAt

\* the download of the item in progress raised
DownloadRaised ==
    pc = "cleanup" /\ resp[cur] = "none" /\ result[cur] # "Skipped"

\* C11: for every retries >= 0, when every attempt fails the download makes
\* exactly retries + 1 requests, sleeps only between two consecutive
\* attempts, and raises, so that the item is reported Failed.
C11_RetriesPlusOneAttempts ==
    /\ pc = "download" => (gets <= retries_arg /\ sleeps = gets)
    /\ DownloadRaised =>
          /\ gets = retries_arg + 1
          /\ sleeps = retries_arg
          /\ result[cur] = "Failed"

\* the default retries = 2: three failed requests, two sleeps, Failed
C11_Witness ==
    /\ DownloadRaised
    /\ retries_arg = retries
    /\ gets = 3
    /\ sleeps = 2
    /\ result[cur] = "Failed"

\* C12: when the source adapter fails to list the candidates, the run
\* processes nothing: no download, no POST, no partly collected list, and the
\* ledger in memory and on disk stays as loaded.
C12_SourceFailureProcessesNothing ==
    [][fetch_err' =>
          /\ pc' = "done"
          /\ videos' = <<>> /\ new_videos' = <<>>
          /\ dl_calls' = {} /\ post_calls' = {}
          /\ cache' = cache /\ PostedIds(cache') = loaded'
          /\ file' = file /\ pubs' = pubs /\ disk' = disk]_vars

\* a run with a non-empty ledger that ended on the source failure
C12_Witness ==
    /\ fetch_err
    /\ pc = "done"
    /\ loaded # {}
    /\ LedgerOf(file) = loaded

\* the exit status of the interpreter once main is over: 0 after a return,
\* 1 after an uncaught exception
exit_status == IF pc = "aborted" THEN 1 ELSE 0

\* C13: a run that main ends has a failure status exactly when the source
\* adapter could not list the candidates; item failures alone give success.
C13_ExitStatusTellsSourceFailure ==
    pc = "done" => (exit_status # 0 <=> fetch_err)

\* C14: in one run at most one POST is sent for a selected item, whatever
\* the outcome of the POST and however many download attempts were made.
C14_OnePostPerItem == \A t \in DOMAIN nposts : nposts[t] <= 1

\* a finished run with an item whose single POST failed
C14_Witness ==
    /\ pc = "done"
    /\ \E t \in Times :
          /\ resp[t] \in {"http_error", "exception"}
          /\ result[t] = "Failed"
          /\ nposts[t] = 1

\* the responses by which the destination rejects the upload
Rejected == {"err200", "http_error", "exception"}

InItem == pc \in {"download", "upload", "save", "write", "cleanup"}

\* C15: when the download of an item fails after all retries or its POST is
\* rejected, posted_ids and the cache file are what they were when the
\* processing of the item began.
C15_FailedItemLeavesLedger ==
    (InItem /\ (DownloadRaised \/ resp[cur] \in Rejected)) =>
        (cache = before.cache /\ file = before.file)

\* C16: upload_to_facebook reached with an id that is already in the ledger
\* does nothing: no POST, no exception, no new entry of posted_ids, no write
\* of the cache file.
C16_AlreadyPostedIsNoOp ==
    [][(pc = "upload" /\ item.id \in PostedIds(cache) /\ pc' # "killed") =>
          /\ result' = Set1(result, cur, "Skipped")
          /\ pc' = "cleanup"
          /\ cache' = cache /\ file' = file
          /\ resp' = resp /\ nposts' = nposts /\ pubs' = pubs]_vars

\* a batch with the same id twice: the second entry was skipped
C16_Witness ==
    /\ pc = "cleanup"
    /\ result[cur] = "Skipped"
    /\ nposts[cur] = 0
    /\ \E t \in Times : t # cur /\ ItemAt(t).id = item.id /\ nposts[t] = 1

\* C17: the ledger only grows: an id of the in-memory ledger stays in it
\* for the rest of the run, and whatever the run writes to the cache file
\* holds every id the file held when the run loaded it.
C17_LedgerOnlyGrows ==
    [][(pc \notin Stopped /\ pc' # "killed") =>
          /\ PostedIds(cache) \subseteq PostedIds(cache')
          /\ file' # file => loaded \subseteq LedgerOf(file')]_vars

\* the posts of a feed that are videos with a direct URL, in feed order
RECURSIVE VideoPosts(_)
VideoPosts(posts) ==
    IF posts = <<>> THEN <<>>
    ELSE IF Head(posts).is_video /\ Head(posts).video_url
         THEN <<Head(posts)>> \o VideoPosts(Tail(posts))
         ELSE VideoPosts(Tail(posts))

Min(x, y) == IF x < y THEN x ELSE y

\* C18: the result holds at most max_results candidates, each a video post
\* with a video_url, in feed order; the posts skipped for being no video or
\* having no URL do not count toward the limit.
C18_FirstVideosInFeedOrder ==
    fcall.returned =>
        LET vp == VideoPosts(fcall.posts)
            out == fcall.out
        IN /\ Len(out) <= fcall.max_results
           /\ Len(out) = Min(fcall.max_results, Len(vp))
           /\ \A j \in 1..Len(out) :
                 /\ out[j].id = vp[j].shortcode
                 /\ out[j].publishedAt = vp[j].date_utc
           /\ \A i, j \in 1..Len(out) :
                 i < j => out[i].publishedAt > out[j].publishedAt

\* a feed of a post that is no video and then a video, read with a limit of
\* one: the video is returned
C18_Witness ==
    /\ fcall.returned
    /\ fcall.max_results = 1
    /\ Len(fcall.posts) = 2
    /\ ~fcall.posts[1].is_video
    /\ Len(fcall.out) = 1
    /\ fcall.out[1].id = fcall.posts[2].shortcode

\* the item was published and its save_cache raised
SaveFailed(t) == resp[t] = "ok" /\ Ended(t) /\ result[t] # "Committed"

\* the item reported as an error, its id in posted_ids, no POST for a later
\* entry of the same id
KeptInMemory ==
    \A t \in Times : SaveFailed(t) =>
        /\ result[t] = "Failed"
        /\ ItemAt(t).id \in PostedIds(cache)
        /\ \A u \in Times :
              (u > t /\ ItemAt(u).id = ItemAt(t).id) => nposts[u] = 0

\* the run is over and no save_cache after the failed one returned: the id
\* is not in the file the next run loads
NotInFileAtEnd ==
    pc = "done" =>
        \A t \in Times :
            (SaveFailed(t)
             /\ ~\E u \in Times : u > t /\ result[u] = "Committed")
            => ItemAt(t).id \notin LedgerOf(file)

\* C19: when save_cache fails after item A was published, A's id stays in
\* posted_ids, A is reported as an error and not published again in the
\* run, the next save_cache that returns writes A's id, and without such a
\* save the id is absent from the file at the start of the next run.
C19_FailedSaveKeptThenWritten ==
    [][/\ KeptInMemory'
       /\ NotInFileAtEnd'
       /\ (pc = "write" /\ pc' = "cleanup" /\ result'[cur] = "Committed") =>
             \A t \in Times : SaveFailed(t) =>
                 ItemAt(t).id \in LedgerOf(file')]_vars

\* a's save failed, the save of the next item b returned and wrote a as well
C19_Witness ==
    /\ pc = "done"
    /\ \E t, u \in Times :
          /\ t < u
          /\ SaveFailed(t)
          /\ result[u] = "Committed"
          /\ ItemAt(t).id # ItemAt(u).id
          /\ ItemAt(t).id \in LedgerOf(file)

\* C20: if every network and file call returns or raises, a run of main
\* ends, every selected item has then reached a terminal outcome, and an
\* outcome once reached is not replaced: no item is processed twice.
C20_RunTerminates ==
    /\ (pc = "load") ~> (pc \in {"done", "aborted"})
    /\ [](pc = "done" => \A t \in Times : Ended(t))
    /\ [][\A t \in Times :
             (Ended(t) /\ t \in DOMAIN result') => result'[t] = result[t]]_vars

\* a finished run of two items: one failed on all its download attempts,
\* the other was committed
C20_Witness ==
    /\ pc = "done"
    /\ Len(new_videos) = 2
    /\ \E t, u \in Times :
          /\ result[t] = "Failed" /\ resp[t] = "none"
          /\ result[u] = "Committed"

====
